---- MODULE Spec2Model ----
(***************************************************************************)
(* Model of pipelines/examples/anthropic_manifold_pipeline.py: the         *)
(* Pipeline class that adapts the host's pipe() call to the vendor's       *)
(* messages.create call, single-shot or streaming.                         *)
(*                                                                         *)
(* The host runs one chat turn at a time: the caller drops the result of   *)
(* one pipe() call, at any point, before the next.  The vendor SDK is a    *)
(* black box whose outcomes (fault, response, stream events) are chosen    *)
(* nondeterministically.                                                   *)
(* Python strings are TLA+ strings, floats are kept as their literals      *)
(* ("1.0"), a dict is a function on the set of its keys.                   *)
(***************************************************************************)
EXTENDS Integers, Sequences, FiniteSets, TLC

(* ------------------------------ bounds --------------------------------- *)
\* events a vendor stream delivers before it closes or fails
MaxEvents == 2
\* content elements of a single-shot vendor response
MaxContent == 2
\* client handles constructed over a run (the first by __init__)
MaxClients == 2
\* results the caller pulls from one generator: every fragment, the end of
\* the stream, and one pull more
MaxPulls == MaxEvents + 2

(* ------------------------------- data ---------------------------------- *)
\* values of the ANTHROPIC_API_KEY valve
Keys == {"sk-env", "sk-new"}

\* the valve as read from the environment by __init__
EnvKey == "sk-env"

Texts == {"", "Hel"}

\* the exceptions messages.create or the stream iterator may raise
Faults == {"RateLimitError", "APIStatusError", "APIConnectionError", "RuntimeError"}

\* stream event types other than the two the adapter reads
OtherTypes == {"message_stop"}

\* the vendor's stream events; text is content_block.text of a start event
\* and delta.text of a delta event
Events ==
    [type : {"content_block_start", "content_block_delta"}, text : Texts]
        \cup [type : OtherTypes, text : {""}]

\* the generation options the host may put in body, besides "stream"
OptionKeys == {"max_tokens", "temperature", "top_k", "top_p", "stop", "stop_sequences"}

\* the value the host supplies under a key other than "stream"
BodyValue(k) ==
    CASE k = "max_tokens" -> 256
      [] k = "temperature" -> "0.2"
      [] k = "top_k" -> 5
      [] k = "top_p" -> "0.5"
      [] k = "stop" -> <<"STOP">>
      [] k = "stop_sequences" -> <<"END">>

\* the body dict with key set S, "stream" (if present) set to s
BodyOf(S, s) == [k \in S |-> IF k = "stream" THEN s ELSE BodyValue(k)]

\* the bodies the host sends: no option, one option, or all of them, each
\* without "stream" or with it
OptionSets == {{}} \cup {{k} : k \in OptionKeys} \cup {OptionKeys}

KeySets == OptionSets \cup {S \cup {"stream"} : S \in OptionSets}

ModelIds == {"claude-3-haiku-20240307"}

MessageLists == {<<[role |-> "user", content |-> "Hi"]>>}

\* sequences over S of length at most n
SeqsUpTo(S, n) == UNION {[1..m -> S] : m \in 0..n}

(* ------------------------------ state ---------------------------------- *)
VARIABLES
    valves,        \* self.valves.ANTHROPIC_API_KEY
    client,        \* self.client: [id, api_key] of the handle in use
    nclients,      \* number of Anthropic(...) handles constructed so far
    built,         \* the valve value stored when the handle was last (re)built
    models,        \* what the host last got from pipelines(), <<>> before
    body,          \* body of the current pipe() invocation
    model_id,      \* its model_id
    messages,      \* its messages
    ret,           \* what pipe() gave the caller: [t, v]
    calls,         \* messages.create calls made for the current invocation
    clientAtPipe,  \* self.client at the moment pipe() was called
    gen,           \* generator: "none", "created", "suspended", "done"
    streams,       \* the vendor stream the generator iterates: <<>> or <<s>>
    out            \* what the caller's pulls produced: yields and raises

vars ==
    <<valves, client, nclients, built, models, body, model_id, messages, ret,
      calls, clientAtPipe, gen, streams, out>>

turn == <<body, model_id, messages, ret, calls, clientAtPipe, gen, streams, out>>

(* ---------------------------- the adapter ------------------------------ *)
\* Anthropic(api_key=...): a fresh handle remembering its construction argument
Anthropic(api_key) == [id |-> nclients + 1, api_key |-> api_key]

get_anthropic_models ==
    << [id |-> "claude-3-haiku-20240307", name |-> "claude-3-haiku"],
       [id |-> "claude-3-opus-20240229", name |-> "claude-3-opus"],
       [id |-> "claude-3-sonnet-20240229", name |-> "claude-3-sonnet"] >>

pipelines == get_anthropic_models

\* body.get(k, d)
BodyGet(b, k, d) == IF k \in DOMAIN b THEN b[k] ELSE d

\* bool(body.get("stream", False))
WantsStream(b) == BodyGet(b, "stream", FALSE)

CompletionArgsTopP1(m, msgs, b) ==
    [model |-> m,
     messages |-> msgs,
     max_tokens |-> BodyGet(b, "max_tokens", 1024),
     temperature |-> BodyGet(b, "temperature", "1.0"),
     top_k |-> BodyGet(b, "top_k", 40),
     top_p |-> BodyGet(b, "top_p", "1.0"),
     stop_sequences |-> BodyGet(b, "stop", <<>>),
     stream |-> FALSE]

\* keyword arguments of messages.create in get_completion
CompletionArgs(m, msgs, b) ==
    [model |-> m,
     messages |-> msgs,
     max_tokens |-> BodyGet(b, "max_tokens", 1024),
     temperature |-> BodyGet(b, "temperature", "1.0"),
     top_k |-> BodyGet(b, "top_k", 40),
     top_p |-> BodyGet(b, "top_p", "0.9"),
     stop_sequences |-> BodyGet(b, "stop", <<>>),
     stream |-> FALSE]

StreamArgsNoStop(m, msgs, b) ==
    [model |-> m,
     messages |-> msgs,
     max_tokens |-> BodyGet(b, "max_tokens", 1024),
     temperature |-> BodyGet(b, "temperature", "1.0"),
     top_k |-> BodyGet(b, "top_k", 40),
     top_p |-> BodyGet(b, "top_p", "0.9"),
     stop_sequences |-> <<>>,
     stream |-> TRUE]

\* keyword arguments of messages.create in stream_response
StreamArgs(m, msgs, b) ==
    [model |-> m,
     messages |-> msgs,
     max_tokens |-> BodyGet(b, "max_tokens", 1024),
     temperature |-> BodyGet(b, "temperature", "1.0"),
     top_k |-> BodyGet(b, "top_k", 40),
     top_p |-> BodyGet(b, "top_p", "0.9"),
     stop_sequences |-> BodyGet(b, "stop", <<>>),
     stream |-> TRUE]

\* results: a returned string, a returned generator, a raised exception,
\* a yielded fragment
Str(s) == [t |-> "str", v |-> s]
Generator == [t |-> "generator", v |-> ""]
Raise(e) == [t |-> "raise", v |-> e]
Yield(s) == [t |-> "yield", v |-> s]
NoResult == [t |-> "none", v |-> ""]

\* str(e) of a vendor exception
Describe(e) ==
    CASE e = "RateLimitError" -> "rate limit exceeded"
      [] e = "APIStatusError" -> "status 500"
      [] e = "APIConnectionError" -> "Connection error."
      [] OTHER -> e

CaughtStatusOnly == {"RateLimitError", "APIStatusError"}

\* the exception classes of pipe's except clause
Caught == {"RateLimitError", "APIStatusError", "APIConnectionError"}

LastText(content) ==
    IF Len(content) = 0 THEN Raise("IndexError") ELSE Str(content[Len(content)].text)

\* response.content[0].text; an empty content list raises IndexError
FirstText(content) ==
    IF Len(content) = 0 THEN Raise("IndexError") ELSE Str(content[1].text)

\* pipe's try/except around the value or exception r of the branch taken
PipeResult(r) ==
    IF r.t = "raise" /\ r.v \in Caught
    THEN Str("Error: " \o Describe(r.v))
    ELSE r

FragmentDeltaOnly(chunk) ==
    IF chunk.type = "content_block_delta" THEN <<chunk.text>> ELSE <<>>

\* what the generator's loop body yields for one chunk: <<text>> or nothing
Fragment(chunk) ==
    IF chunk.type = "content_block_start" THEN <<chunk.text>>
    ELSE IF chunk.type = "content_block_delta" THEN <<chunk.text>>
    ELSE <<>>

StreamFaultAsFragment(e) == <<Yield("Error: " \o Describe(e))>>

\* an exception raised by the stream iterator inside the generator's for loop
StreamFault(e) == <<Raise(e)>>

StreamClientAtPipe == clientAtPipe

\* the handle stream_response reads as self.client when its body runs
StreamClient == client

Quiet(batch) == \A i \in 1..Len(batch) : Fragment(batch[i]) = <<>>

(* ------------------------------ actions -------------------------------- *)
Init ==
    /\ valves = EnvKey
    /\ nclients = 1
    /\ client = [id |-> 1, api_key |-> EnvKey]
    /\ built = EnvKey
    /\ models = <<>>
    /\ body = BodyOf({}, FALSE)
    /\ model_id = ""
    /\ messages = <<>>
    /\ ret = NoResult
    /\ calls = <<>>
    /\ clientAtPipe = client
    /\ gen = "none"
    /\ streams = <<>>
    /\ out = <<>>

\* the host stores a new credential in the valves
SetValve ==
    /\ \E k \in Keys \ {valves} : valves' = k
    /\ UNCHANGED <<client, nclients, built, models, turn>>

on_valves_update_stale ==
    /\ nclients < MaxClients
    /\ client' = Anthropic(client.api_key)
    /\ nclients' = nclients + 1
    /\ built' = valves
    /\ UNCHANGED <<valves, models, turn>>

on_valves_update ==
    /\ nclients < MaxClients
    /\ client' = Anthropic(valves)
    /\ nclients' = nclients + 1
    /\ built' = valves
    /\ UNCHANGED <<valves, models, turn>>

ListModels ==
    /\ models' = pipelines
    /\ UNCHANGED <<valves, client, nclients, built, turn>>

\* a messages.create call as the vendor transport records it
\* (raised is "" when it returned; content is the response's content list)
Call(handle, args, raised, content) ==
    [handle |-> handle, args |-> args, raised |-> raised, content |-> content,
     built |-> built]

\* pipe with a body that does not ask for a stream: get_completion runs
PipeCompletion(m, msgs, b) ==
    /\ ~WantsStream(b)
    /\ \/ \E e \in Faults :
            /\ calls' = <<Call(client, CompletionArgs(m, msgs, b), e, <<>>)>>
            /\ ret' = PipeResult(Raise(e))
       \/ \E content \in SeqsUpTo([text : Texts], MaxContent) :
            /\ calls' = <<Call(client, CompletionArgs(m, msgs, b), "", content)>>
            /\ ret' = PipeResult(FirstText(content))
    /\ gen' = "none"

\* pipe with a truthy body["stream"]: calling the generator function
\* stream_response runs none of its body
PipeStream(m, msgs, b) ==
    /\ WantsStream(b)
    /\ calls' = <<>>
    /\ ret' = PipeResult(Generator)
    /\ gen' = "created"

pipe ==
    /\ ret = NoResult
    /\ \E m \in ModelIds, msgs \in MessageLists, S \in KeySets, s \in BOOLEAN :
        LET b == BodyOf(S, s) IN
        /\ body' = b
        /\ model_id' = m
        /\ messages' = msgs
        /\ clientAtPipe' = client
        /\ streams' = <<>>
        /\ out' = <<>>
        /\ \/ PipeCompletion(m, msgs, b)
           \/ PipeStream(m, msgs, b)
    /\ UNCHANGED <<valves, client, nclients, built, models>>

\* the caller drops what pipe gave it (a generator may be dropped at any
\* point of its consumption); the host is ready for its next turn
EndTurn ==
    /\ ret # NoResult
    /\ body' = BodyOf({}, FALSE)
    /\ model_id' = ""
    /\ messages' = <<>>
    /\ ret' = NoResult
    /\ calls' = <<>>
    /\ clientAtPipe' = client
    /\ gen' = "none"
    /\ streams' = <<>>
    /\ out' = <<>>
    /\ UNCHANGED <<valves, client, nclients, built, models>>

\* the generator's for loop from the stream s on, until it yields, the stream
\* closes (the generator returns) or the stream iterator raises
RunLoop(s) ==
    \E batch \in SeqsUpTo(Events, MaxEvents - Len(s.events)) :
        \/ /\ batch # <<>>
           /\ Quiet(SubSeq(batch, 1, Len(batch) - 1))
           /\ Fragment(batch[Len(batch)]) # <<>>
           /\ streams' = <<[s EXCEPT !.events = s.events \o batch]>>
           /\ out' = Append(out, Yield(Fragment(batch[Len(batch)])[1]))
           /\ gen' = "suspended"
        \/ /\ Quiet(batch)
           /\ streams' = <<[s EXCEPT !.events = s.events \o batch, !.status = "closed"]>>
           /\ out' = Append(out, Raise("StopIteration"))
           /\ gen' = "done"
        \/ /\ Quiet(batch)
           /\ \E e \in Faults :
                /\ streams' = <<[s EXCEPT !.events = s.events \o batch, !.status = e]>>
                /\ out' = out \o StreamFault(e)
                /\ gen' = "done"

\* first next(): the body of stream_response starts, makes the vendor call
\* and runs to its first yield
PullFirst ==
    /\ gen = "created"
    /\ Len(out) < MaxPulls
    /\ \/ \E e \in Faults :
            /\ calls' = Append(calls, Call(StreamClient, StreamArgs(model_id, messages, body), e, <<>>))
            /\ out' = Append(out, Raise(e))
            /\ gen' = "done"
            /\ streams' = <<>>
       \/ /\ calls' = Append(calls, Call(StreamClient, StreamArgs(model_id, messages, body), "", <<>>))
          /\ RunLoop([handle |-> StreamClient, events |-> <<>>, status |-> "open"])
    /\ UNCHANGED <<valves, client, nclients, built, models, body, model_id, messages,
                   ret, clientAtPipe>>

\* a later next(): the loop resumes after the yield
PullNext ==
    /\ gen = "suspended"
    /\ Len(out) < MaxPulls
    /\ RunLoop(streams[1])
    /\ UNCHANGED <<valves, client, nclients, built, models, body, model_id, messages,
                   ret, calls, clientAtPipe>>

\* next() on a generator that has returned or raised
PullDone ==
    /\ gen = "done"
    /\ Len(out) < MaxPulls
    /\ out' = Append(out, Raise("StopIteration"))
    /\ UNCHANGED <<valves, client, nclients, built, models, body, model_id, messages,
                   ret, calls, clientAtPipe, gen, streams>>

Next ==
    \/ SetValve
    \/ on_valves_update
    \/ ListModels
    \/ pipe
    \/ EndTurn
    \/ PullFirst
    \/ PullNext
    \/ PullDone

Spec == Init /\ [][Next]_vars

TypeOK ==
    /\ valves \in Keys
    /\ client.api_key \in Keys
    /\ client.id \in 1..nclients
    /\ gen \in {"none", "created", "suspended", "done"}
    /\ Len(calls) <= 1
    /\ Len(streams) <= 1
    /\ Len(out) <= MaxPulls

(* ------------------------- claims: vocabulary -------------------------- *)
\* the three vendor failures the adapter is to report rather than raise
RecoverableKinds == {"RateLimitError", "APIStatusError", "APIConnectionError"}

\* the strings of the form "Error: <description>"
ErrorStrings == {"Error: " \o Describe(e) : e \in Faults}

\* the current invocation took the streaming path / the single-shot path
Invoked == ret # NoResult
StreamingTurn == Invoked /\ WantsStream(body)
CompletionTurn == Invoked /\ ~WantsStream(body)

IsYield(r) == r.t = "yield"
IsContentEvent(ev) == ev.type \in {"content_block_start", "content_block_delta"}

\* the fragments the caller received, in order
FragmentsOf(results) ==
    LET ys == SelectSeq(results, IsYield) IN [i \in 1..Len(ys) |-> ys[i].v]

\* the texts of the start and delta events, in order
Projection(evs) ==
    LET cs == SelectSeq(evs, IsContentEvent) IN [i \in 1..Len(cs) |-> cs[i].text]

\* results[from..] is non-empty and only says the sequence is exhausted
OnlyStops(results, from) ==
    \A i \in from..Len(results) : results[i] = Raise("StopIteration")

(* ------------------------------- claims -------------------------------- *)
\* C1 (as claimed): in a streaming invocation whose initial vendor call
\* fails with a rate-limit, status or connection fault, the caller gets the
\* string "Error: <description>" and the fault is raised neither by pipe nor
\* by a pull on the returned sequence.
C1_StreamInitialFaultReported ==
    (StreamingTurn /\ calls # <<>> /\ calls[1].raised \in RecoverableKinds) =>
        /\ ret = Str("Error: " \o Describe(calls[1].raised))
        /\ \A i \in 1..Len(out) : out[i] # Raise(calls[1].raised)

\* C2: in a single-shot invocation whose vendor call raises a rate-limit,
\* status or connection fault, pipe returns a string "Error: ..." and does
\* not raise, whichever of the three it is, and makes no second vendor call.
C2_CompletionFaultReturnsError ==
    (CompletionTurn /\ calls # <<>> /\ calls[1].raised \in RecoverableKinds) =>
        /\ ret.t = "str"
        /\ ret.v \in ErrorStrings
        /\ Len(calls) = 1

C2_Witness ==
    /\ CompletionTurn
    /\ calls # <<>>
    /\ calls[1].raised = "APIConnectionError"
    /\ ret.t = "str"

\* C3: the fragments a streaming invocation has produced are, in order, the
\* texts of the "content block start" and "content block delta" events the
\* vendor stream has delivered, other events contributing nothing; while the
\* stream is open the sequence has not ended, and once the stream closes the
\* sequence ends.
C3_FragmentsAreProjection ==
    streams # <<>> =>
        LET s == streams[1]
            n == Len(Projection(s.events))
        IN  /\ FragmentsOf(out) = Projection(s.events)
            /\ \A i \in 1..Len(out) : i <= n <=> IsYield(out[i])
            /\ s.status = "open" => (Len(out) = n /\ gen = "suspended")
            /\ s.status = "closed" => (Len(out) > n /\ OnlyStops(out, n + 1) /\ gen = "done")

C3_Witness ==
    /\ streams # <<>>
    /\ streams[1].status = "closed"
    /\ Len(streams[1].events) = 2
    /\ streams[1].events[1] = [type |-> "content_block_start", text |-> ""]
    /\ streams[1].events[2].type = "message_stop"
    /\ out = <<Yield(""), Raise("StopIteration")>>

\* C4 (as claimed): every option the caller supplies under the names
\* max_tokens, temperature, top_k, top_p, stop_sequences is forwarded
\* unchanged as the same-named vendor parameter.
C4_OptionsForwardedByName ==
    \A i \in 1..Len(calls) :
        \A k \in {"max_tokens", "temperature", "top_k", "top_p", "stop_sequences"} :
            k \in DOMAIN body => calls[i].args[k] = body[k]

\* C4 (amended): max_tokens, temperature, top_k and top_p are forwarded
\* unchanged under their own names, and the vendor's stop_sequences parameter
\* is the value supplied under the option name "stop" (empty when "stop" is
\* absent, whatever is supplied under "stop_sequences"), in the streaming and
\* in the single-shot call.
C4_OptionsForwardedStopKey ==
    \A i \in 1..Len(calls) :
        /\ \A k \in {"max_tokens", "temperature", "top_k", "top_p"} :
                k \in DOMAIN body => calls[i].args[k] = body[k]
        /\ "stop" \in DOMAIN body => calls[i].args.stop_sequences = body["stop"]
        /\ "stop" \notin DOMAIN body => calls[i].args.stop_sequences = <<>>
        /\ calls[i].args.stream = WantsStream(body)

C4_Witness ==
    /\ StreamingTurn
    /\ calls # <<>>
    /\ OptionKeys \subseteq DOMAIN body
    /\ calls[1].args.stop_sequences = <<"STOP">>
    /\ calls[1].args.max_tokens = 256

\* C5 (as claimed): every invocation of pipe has issued exactly one vendor
\* call, however many fragments of a returned sequence were pulled, none
\* included.
C5_ExactlyOneVendorCall == Invoked => Len(calls) = 1

\* C6: every vendor call goes through a handle constructed with the
\* credential that was stored when on_valves_update was last called (or at
\* construction), so does the handle in use, whatever was stored since; and
\* pipelines() returns the same list before and after.
C6_UpdateRebuildsClient ==
    /\ client.api_key = built
    /\ \A i \in 1..Len(calls) : calls[i].handle.api_key = calls[i].built
    /\ models # <<>> => models = get_anthropic_models

C6_Witness ==
    /\ calls # <<>>
    /\ calls[1].handle.id = 2
    /\ calls[1].handle.api_key = "sk-new"
    /\ models # <<>>

\* C7: a single-shot invocation whose vendor response has one or more
\* content elements returns the text of the first; later elements do not
\* show in the result.
C7_FirstContentWins ==
    (CompletionTurn /\ calls # <<>> /\ calls[1].raised = ""
        /\ Len(calls[1].content) >= 1) =>
        ret = Str(calls[1].content[1].text)

C7_Witness ==
    /\ CompletionTurn
    /\ calls # <<>>
    /\ calls[1].raised = ""
    /\ Len(calls[1].content) = 2
    /\ calls[1].content[1].text = ""
    /\ calls[1].content[2].text = "Hel"
    /\ ret = Str("")

\* C8: when the body omits every generation option the vendor call carries
\* max_tokens=1024, temperature=1.0, top_k=40, top_p=0.9, stop_sequences=[];
\* when it omits "stream" too the single-shot path is taken.
C8_DefaultsWhenOmitted ==
    /\ \A i \in 1..Len(calls) :
        (DOMAIN body \cap OptionKeys = {}) =>
            /\ calls[i].args.max_tokens = 1024
            /\ calls[i].args.temperature = "1.0"
            /\ calls[i].args.top_k = 40
            /\ calls[i].args.top_p = "0.9"
            /\ calls[i].args.stop_sequences = <<>>
    /\ (Invoked /\ DOMAIN body = {}) =>
            /\ gen = "none"
            /\ Len(calls) = 1
            /\ calls[1].args.stream = FALSE

C8_Witness ==
    /\ Invoked
    /\ DOMAIN body = {}
    /\ calls # <<>>
    /\ calls[1].raised = ""

\* C9: when the vendor stream fails after k >= 1 fragments were yielded, the
\* caller has received exactly those k fragments in order, then the fault
\* itself, then nothing but the end of the sequence; there was one vendor
\* call.
C9_MidStreamFaultPropagates ==
    (streams # <<>> /\ streams[1].status \in Faults
        /\ Len(Projection(streams[1].events)) >= 1) =>
        LET frags == Projection(streams[1].events)
            k == Len(frags)
        IN  /\ Len(out) >= k + 1
            /\ \A i \in 1..k : out[i] = Yield(frags[i])
            /\ out[k + 1] = Raise(streams[1].status)
            /\ OnlyStops(out, k + 2)
            /\ gen = "done"
            /\ Len(calls) = 1

C9_Witness ==
    /\ streams # <<>>
    /\ streams[1].status = "RateLimitError"
    /\ out = <<Yield("Hel"), Raise("RateLimitError"), Raise("StopIteration")>>

\* C10: the vendor call of a streaming invocation is made at its first pull
\* through the handle that is current then; the stream it opens stays on that
\* handle, and a handle replacement while the sequence is suspended changes
\* nothing of the stream, the fragments received or the calls made.
C10_StreamUsesClientAtFirstPull ==
    /\ [][(gen = "created" /\ gen' # "created" /\ ret' # NoResult)
            => (Len(calls') = 1 /\ calls'[1].handle = client)]_vars
    /\ [][(gen = "suspended" /\ client' # client)
            => UNCHANGED <<gen, streams, out, calls, ret>>]_vars
    /\ [](streams # <<>> => (calls # <<>> /\ streams[1].handle = calls[1].handle))

C10_Witness ==
    /\ gen = "suspended"
    /\ calls # <<>>
    /\ calls[1].handle # clientAtPipe
    /\ streams[1].handle = client
    /\ Len(out) = 2
====
